---- MODULE Spec2Model ----
(***************************************************************************)
(* Model of the response interpretation and service dispatch engine of     *)
(* src/hagpt.py (class HAGPT): _clean_ai_response, _call_ha_service,       *)
(* _set_virtual_file_entity, _set_virtual_entity_base and                  *)
(* process_ai_response.                                                    *)
(*                                                                         *)
(* Strings are sequences of tokens.  The tokenisation is canonical: the    *)
(* separators ".", ":", "/", " ", "\n" and the code fence (```) are tokens   *)
(* of their own, a decimal digit is a token of its own, a maximal run of   *)
(* ASCII letters is one token, and any other token starts with a           *)
(* non-letter; the literals the program tests as prefixes ("script",       *)
(* "notify", "echo_") are tokens of their own.  Python values are records  *)
(* [t, s, n]: t is the type tag, s the token sequence of a str, n the      *)
(* value of a number.  A dict is a function from its keys to values.       *)
(***************************************************************************)
EXTENDS Integers, Sequences, FiniteSets, TLC

VARIABLES store, last

vars == <<store, last>>

(***************************************************************************)
(* Bounds of the model.                                                    *)
(***************************************************************************)
\* numeric volume levels offered as inputs are 0 .. MaxLevel
MaxLevel == 1

(***************************************************************************)
(* Python values.                                                          *)
(***************************************************************************)
None == [t |-> "none", s |-> <<>>, n |-> 0]

Str(s) == [t |-> "str", s |-> s, n |-> 0]

Num(n) == [t |-> "num", s |-> <<>>, n |-> n]

\* a float; the model carries integral floats only
Flt(n) == [t |-> "float", s |-> <<>>, n |-> n]

\* a JSON array; its elements are never inspected by the program
List == [t |-> "list", s |-> <<>>, n |-> 1]

\* a dict used as a value inside another dict
Dict(d) == [t |-> "dict", s |-> <<>>, n |-> 0, d |-> d]

\* the empty dict {}
EmptyDict == [k \in {} |-> None]

\* Truthy with the test "is not None" in place of truthiness
TruthyNotNone(v) == v.t # "none"

\* Python truthiness of a value (if service:)
Truthy(v) ==
    CASE v.t = "none" -> FALSE
      [] v.t = "str" -> v.s # <<>>
      [] v.t = "num" -> v.n # 0
      [] v.t = "float" -> v.n # 0
      [] OTHER -> TRUE

\* dict.get(key) with the default None
Get(d, key) == IF key \in DOMAIN d THEN d[key] ELSE None

\* truthiness of a dict
NonEmpty(d) == DOMAIN d # {}

\* the dict d after d.update(e)
Update(d, e) ==
    [k \in (DOMAIN d) \cup (DOMAIN e) |-> IF k \in DOMAIN e THEN e[k] ELSE d[k]]

(***************************************************************************)
(* String helpers.                                                         *)
(***************************************************************************)
Digits == <<"0", "1", "2", "3", "4", "5", "6", "7", "8", "9">>

IsDigit(c) == \E i \in 1..10 : Digits[i] = c

DigitVal(c) == (CHOOSE i \in 1..10 : Digits[i] = c) - 1

RECURSIVE IntToStr(_)
\* str(n) of a natural number, as in f"{response.status_code}"
IntToStr(n) ==
    IF n < 10 THEN <<Digits[n + 1]>>
    ELSE IntToStr(n \div 10) \o <<Digits[(n % 10) + 1]>>

RECURSIVE StrToNat(_)
\* the value of a non-empty sequence of decimal digits
StrToNat(s) ==
    IF Len(s) = 1 THEN DigitVal(s[1])
    ELSE 10 * StrToNat(SubSeq(s, 1, Len(s) - 1)) + DigitVal(s[Len(s)])

AllDigits(s) == s # <<>> /\ \A i \in 1..Len(s) : IsDigit(s[i])

\* s.startswith(p)
StartsWith(s, p) == Len(s) >= Len(p) /\ SubSeq(s, 1, Len(p)) = p

\* index of the first occurrence of token c in s, 0 when there is none
FirstIndex(s, c) ==
    IF \E i \in 1..Len(s) : s[i] = c
    THEN CHOOSE i \in 1..Len(s) : s[i] = c /\ \A j \in 1..(i - 1) : s[j] # c
    ELSE 0

IsSpace(c) == c \in {" ", "\n"}

\* the tokens of the raw texts that consist of ASCII letters only
AlphaTokens == {"json", "Hello", "there", "null"}

\* c matches [a-zA-Z]*
IsAlpha(c) == c \in AlphaTokens

RECURSIVE LStrip(_)
LStrip(s) == IF s # <<>> /\ IsSpace(s[1]) THEN LStrip(Tail(s)) ELSE s

RECURSIVE RStrip(_)
RStrip(s) ==
    IF s # <<>> /\ IsSpace(s[Len(s)]) THEN RStrip(SubSeq(s, 1, Len(s) - 1)) ELSE s

\* s.strip()
Strip(s) == RStrip(LStrip(s))

(***************************************************************************)
(* json.loads on the documents of the corpus.  A document is one token     *)
(* holding the literal JSON text; JSON whitespace around it is skipped.    *)
(* The result is [err, t, o]: err for JSONDecodeError, t the type of the   *)
(* decoded value and o the members of a decoded object.                    *)
(***************************************************************************)
Decoded(t, o) == [err |-> FALSE, t |-> t, o |-> o]

DecodeError == [err |-> TRUE, t |-> "none", o |-> EmptyDict]

LightKitchen == Str(<<"light", ".", "kitchen">>)

SwitchDebug == Str(<<"switch", ".", "debug">>)

InputSelectPreferences == Str(<<"input_select", ".", "preferences">>)

InputSelectIntel == Str(<<"input_select", ".", "intelligence_level">>)

BaseSpeaker == Str(<<"media_player", ".", "base_speaker">>)

\* a service of the echo notification channel
EchoKitchen == Str(<<"notify", ".", "echo_", "kitchen">>)

DocNum == "42"

DocStr == "\"hi\""

DocList == "[1]"

DocNull == "null"

DocEmpty == "{}"

DocChat == "{\"response_text\":\"hi\"}"

DocSvcNull == "{\"service\":null,\"response_text\":\"hi\"}"

DocSvcEmpty == "{\"service\":\"\",\"response_text\":\"hi\"}"

DocSvcNum == "{\"service\":5}"

DocNoDot == "{\"service\":\"turn_on\",\"target\":{\"entity_id\":\"light.kitchen\"}}"

DocLight == "{\"service\":\"light.turn_on\",\"target\":{\"entity_id\":\"light.kitchen\"},\"data\":{\"brightness\":80},\"response_text\":\"ok\"}"

DocDebug == "{\"service\":\"switch.turn_on\",\"target\":{\"entity_id\":\"switch.debug\"}}"

DocPref == "{\"service\":\"input_select.select_option\",\"target\":{\"entity_id\":\"input_select.preferences\"},\"data\":{\"option\":\"Casual\"}}"

DocVol == "{\"service\":\"media_player.volume_set\",\"target\":{\"entity_id\":\"media_player.base_speaker\"},\"data\":{\"volume_level\":\"abc\"}}"

JsonDocs ==
    {DocNum, DocStr, DocList, DocNull, DocEmpty, DocChat, DocSvcNull,
     DocSvcEmpty, DocSvcNum, DocNoDot, DocLight, DocDebug, DocPref, DocVol}

DecodeDoc(d) ==
    CASE d = DocNum -> Decoded("num", EmptyDict)
      [] d = DocStr -> Decoded("str", EmptyDict)
      [] d = DocList -> Decoded("list", EmptyDict)
      [] d = DocNull -> Decoded("none", EmptyDict)
      [] d = DocEmpty -> Decoded("obj", EmptyDict)
      [] d = DocChat -> Decoded("obj", [response_text |-> Str(<<"hi">>)])
      [] d = DocSvcNull ->
           Decoded("obj", [service |-> None, response_text |-> Str(<<"hi">>)])
      [] d = DocSvcEmpty ->
           Decoded("obj", [service |-> Str(<<>>), response_text |-> Str(<<"hi">>)])
      [] d = DocSvcNum -> Decoded("obj", [service |-> Num(5)])
      [] d = DocNoDot ->
           Decoded("obj", [service |-> Str(<<"turn_on">>),
                           target |-> [entity_id |-> LightKitchen]])
      [] d = DocLight ->
           Decoded("obj", [service |-> Str(<<"light", ".", "turn_on">>),
                           target |-> [entity_id |-> LightKitchen],
                           data |-> [brightness |-> Num(80)],
                           response_text |-> Str(<<"ok">>)])
      [] d = DocDebug ->
           Decoded("obj", [service |-> Str(<<"switch", ".", "turn_on">>),
                           target |-> [entity_id |-> SwitchDebug]])
      [] d = DocPref ->
           Decoded("obj", [service |-> Str(<<"input_select", ".", "select_option">>),
                           target |-> [entity_id |-> InputSelectPreferences],
                           data |-> [option |-> Str(<<"Casual">>)]])
      [] d = DocVol ->
           Decoded("obj", [service |-> Str(<<"media_player", ".", "volume_set">>),
                           target |-> [entity_id |-> BaseSpeaker],
                           data |-> [volume_level |-> Str(<<"abc">>)]])

\* json.loads(s)
JsonLoads(s) ==
    LET body == Strip(s)
    IN  IF Len(body) = 1 /\ body[1] \in JsonDocs THEN DecodeDoc(body[1])
        ELSE DecodeError

(***************************************************************************)
(* _clean_ai_response                                                      *)
(***************************************************************************)
\* the code fence, three backquotes (a backquote cannot occur in a TLA+ string)
Fence == "<fence>"

RECURSIVE DropAlpha(_)
\* s without the letters matched by [a-zA-Z]* at its start
DropAlpha(s) == IF s # <<>> /\ IsAlpha(s[1]) THEN DropAlpha(Tail(s)) ELSE s

\* re.sub(r'^```[a-zA-Z]*\n?', '', s)
SubLeadingFence(s) ==
    IF s # <<>> /\ s[1] = Fence
    THEN LET r == DropAlpha(Tail(s))
         IN  IF r # <<>> /\ r[1] = "\n" THEN Tail(r) ELSE r
    ELSE s

\* SubTrailingFence without the optional newline before the fence
SubTrailingFenceOnly(s) ==
    IF s # <<>> /\ s[Len(s)] = Fence THEN SubSeq(s, 1, Len(s) - 1) ELSE s

\* re.sub(r'\n?```$', '', s)
SubTrailingFence(s) ==
    IF s # <<>> /\ s[Len(s)] = Fence
    THEN LET r == SubSeq(s, 1, Len(s) - 1)
         IN  IF r # <<>> /\ r[Len(r)] = "\n" THEN SubSeq(r, 1, Len(r) - 1) ELSE r
    ELSE s

\* the text handed to json.loads
Cleaned(ai_response) == SubTrailingFence(Strip(SubLeadingFence(Strip(ai_response))))

Intent(service, target, variables, response_text, data) ==
    [service |-> service, target |-> target, variables |-> variables,
     response_text |-> response_text, data |-> data]

NoIntent == Intent(None, EmptyDict, EmptyDict, Str(<<>>), EmptyDict)

\* data.get(key, default) on the members of the decoded object
GetOr(o, key, default) == IF key \in DOMAIN o THEN o[key] ELSE default

\* the outcome of _clean_ai_response: the exception that escapes it ("" when
\* it returns) and the intent it returns
CleanAiResponse(ai_response) ==
    LET cleaned == Cleaned(ai_response)
        data == JsonLoads(cleaned)
    IN  IF data.err
        THEN [raised |-> "",
              intent |-> Intent(None, EmptyDict, EmptyDict, Str(cleaned), EmptyDict)]
        ELSE IF data.t # "obj"
        THEN [raised |-> "AttributeError", intent |-> NoIntent]
        ELSE [raised |-> "",
              intent |-> Intent(Get(data.o, "service"),
                                GetOr(data.o, "target", EmptyDict),
                                GetOr(data.o, "variables", EmptyDict),
                                GetOr(data.o, "response_text", Str(<<>>)),
                                GetOr(data.o, "data", EmptyDict))]

(***************************************************************************)
(* The network.  An outbound POST either gets an HTTP response or raises a *)
(* requests.exceptions.RequestException; which of them happens is an input *)
(* of the handler.                                                         *)
(***************************************************************************)
Response(status, text) == [exc |-> "", status |-> status, text |-> text, desc |-> <<>>]

Failure(exc, desc) == [exc |-> exc, status |-> 0, text |-> <<>>, desc |-> desc]

NetTimeout == Failure("Timeout", <<"timed", " ", "out">>)

NetConnectionError == Failure("ConnectionError", <<"connection", " ", "refused">>)

\* response.ok of the requests library: raise_for_status() raises exactly for
\* the statuses 400..599
ResponseOk(r) == ~(400 <= r.status /\ r.status < 600)

\* PostResult with the description of a failure returned bare
PostResultBare(net) ==
    IF net.exc # ""
    THEN net.desc
    ELSE IF ResponseOk(net)
    THEN IntToStr(net.status) \o <<":", " ", "OK">>
    ELSE IntToStr(net.status) \o <<":", " ">> \o net.text

\* the ha_result that the try/except around requests.post returns
PostResult(net) ==
    IF net.exc # ""
    THEN <<"Request", " ", "error", ":", " ">> \o net.desc
    ELSE IF ResponseOk(net)
    THEN IntToStr(net.status) \o <<":", " ", "OK">>
    ELSE IntToStr(net.status) \o <<":", " ">> \o net.text

\* self.ha_url and self.base_url, opaque
HaUrl == "<ha_url>"

BaseUrl == "<base_url>"

\* one requests.post: the API addressed, the URL, whether the bearer token
\* header is attached, and the JSON body
Request(api, url, bearer, body) ==
    [api |-> api, url |-> url, bearer |-> bearer, body |-> body]

\* what a handler did: the exception that escapes it ("" when it returns),
\* the ha_result it returns, the requests it posted, the settings it wrote
\* and the preference store it leaves
Outcome(raised, ha_result, calls, writes, st) ==
    [raised |-> raised, ha_result |-> ha_result, calls |-> calls,
     writes |-> writes, store |-> st]

OkResult == <<"2", "0", "0", ":", " ", "OK">>

(***************************************************************************)
(* _set_virtual_file_entity: the settings written and the store left       *)
(***************************************************************************)
\* SetVirtualFileEntity with the two log modes exchanged
SetVirtualFileEntitySwapped(st, virt_entity, virt_setting) ==
    IF virt_entity = SwitchDebug
    THEN LET setting_value ==
                 IF virt_setting = Str(<<"turn_on">>) THEN Str(<<"Info">>)
                 ELSE Str(<<"Debug">>)
         IN  [writes |-> <<[name |-> "Log Mode", value |-> setting_value]>>,
              store |-> [st EXCEPT !["Log Mode"] = setting_value]]
    ELSE IF virt_entity = InputSelectPreferences
    THEN [writes |-> <<[name |-> "Default Preference", value |-> virt_setting]>>,
          store |-> [st EXCEPT !["Default Preference"] = virt_setting]]
    ELSE [writes |-> <<>>, store |-> st]

\* SetVirtualFileEntity with the preference written under the other name
SetVirtualFileEntityMisnamed(st, virt_entity, virt_setting) ==
    IF virt_entity = SwitchDebug
    THEN LET setting_value ==
                 IF virt_setting = Str(<<"turn_on">>) THEN Str(<<"Debug">>)
                 ELSE Str(<<"Info">>)
         IN  [writes |-> <<[name |-> "Log Mode", value |-> setting_value]>>,
              store |-> [st EXCEPT !["Log Mode"] = setting_value]]
    ELSE IF virt_entity = InputSelectPreferences
    THEN [writes |-> <<[name |-> "Log Mode", value |-> virt_setting]>>,
          store |-> [st EXCEPT !["Log Mode"] = virt_setting]]
    ELSE [writes |-> <<>>, store |-> st]

SetVirtualFileEntity(st, virt_entity, virt_setting) ==
    IF virt_entity = SwitchDebug
    THEN LET setting_value ==
                 IF virt_setting = Str(<<"turn_on">>) THEN Str(<<"Debug">>)
                 ELSE Str(<<"Info">>)
         IN  [writes |-> <<[name |-> "Log Mode", value |-> setting_value]>>,
              store |-> [st EXCEPT !["Log Mode"] = setting_value]]
    ELSE IF virt_entity = InputSelectPreferences
    THEN [writes |-> <<[name |-> "Default Preference", value |-> virt_setting]>>,
          store |-> [st EXCEPT !["Default Preference"] = virt_setting]]
    ELSE [writes |-> <<>>, store |-> st]

(***************************************************************************)
(* _set_virtual_entity_base                                                *)
(***************************************************************************)
\* float(v): the exception raised ("" when none) and the value.  A str
\* converts when it is a run of decimal digits.
ToFloat(v) ==
    CASE v.t = "str" ->
           IF AllDigits(v.s) THEN [exc |-> "", val |-> Flt(StrToNat(v.s))]
           ELSE [exc |-> "ValueError", val |-> None]
      [] v.t \in {"num", "float"} -> [exc |-> "", val |-> Flt(v.n)]
      [] OTHER -> [exc |-> "TypeError", val |-> None]

ConversionError == <<"Request", " ", "error", ":", " ", "Volume_Float_Conversion">>

\* SetVirtualEntityBase posting an empty payload when the conversion fails
SetVirtualEntityBasePostAnyway(st, virt_entity, virt_setting, net) ==
    LET conv == ToFloat(virt_setting)
        payload == IF virt_entity = BaseSpeaker /\ conv.exc = ""
                   THEN [volume |-> Dict([level |-> conv.val])]
                   ELSE EmptyDict
        max_url == <<BaseUrl, "/", "control">>
    IN  Outcome("", PostResult(net),
                <<Request("base", max_url, FALSE, payload)>>, <<>>, st)

SetVirtualEntityBase(st, virt_entity, virt_setting, net) ==
    LET conv == ToFloat(virt_setting)
        payload == IF virt_entity = BaseSpeaker
                   THEN [volume |-> Dict([level |-> conv.val])]
                   ELSE EmptyDict
        max_url == <<BaseUrl, "/", "control">>
    IN  IF virt_entity = BaseSpeaker /\ conv.exc = "ValueError"
        THEN Outcome("", ConversionError, <<>>, <<>>, st)
        ELSE IF virt_entity = BaseSpeaker /\ conv.exc # ""
        THEN Outcome(conv.exc, <<>>, <<>>, <<>>, st)
        ELSE Outcome("", PostResult(net),
                     <<Request("base", max_url, FALSE, payload)>>, <<>>, st)

(***************************************************************************)
(* _call_ha_service                                                        *)
(***************************************************************************)
\* the exception raised by: domain, service_name = service.split(".", 1)
SplitError(service) ==
    IF service.t # "str" THEN "AttributeError"
    ELSE IF FirstIndex(service.s, ".") = 0 THEN "ValueError"
    ELSE ""

\* service.split(".", 1)[0]
Domain(s) == SubSeq(s, 1, FirstIndex(s, ".") - 1)

\* service.split(".", 1)[1]
ServiceName(s) == SubSeq(s, FirstIndex(s, ".") + 1, Len(s))

\* ServiceUrl with the domain left out of the path
ServiceUrlNoDomain(domain, action) ==
    <<HaUrl, "/", "api", "/", "services", "/">> \o action

\* f"{self.ha_url}/api/services/{domain}/{action}"
ServiceUrl(domain, action) ==
    <<HaUrl, "/", "api", "/", "services", "/">> \o domain \o <<"/">> \o action

SelectOption == <<"input_select", ".", "select_option">>

\* SendToHa posting a second time after a transport failure
SendToHaRetry(st, url, payload, net) ==
    Outcome("", PostResult(net),
            IF net.exc # ""
            THEN <<Request("ha", url, TRUE, payload), Request("ha", url, TRUE, payload)>>
            ELSE <<Request("ha", url, TRUE, payload)>>,
            <<>>, st)

\* the try/except around requests.post in _call_ha_service
SendToHa(st, url, payload, net) ==
    Outcome("", PostResult(net), <<Request("ha", url, TRUE, payload)>>, <<>>, st)

CallHaService(st, service, target, data, variables, net) ==
    IF SplitError(service) # ""
    THEN Outcome(SplitError(service), <<>>, <<>>, <<>>, st)
    ELSE
    LET s == service.s
        domain == Domain(s)
        service_name == ServiceName(s)
        url == ServiceUrl(domain, service_name)
        entity_id == Get(target, "entity_id")
        plain == Update([entity_id |-> entity_id], data)
    IN  IF StartsWith(s, <<"script", ".">>) /\ NonEmpty(variables)
        THEN SendToHa(st, url,
                      [entity_id |-> entity_id, variables |-> Dict(variables)], net)
        ELSE IF s = SelectOption /\ NonEmpty(data)
        THEN IF entity_id = InputSelectPreferences
             THEN LET w == SetVirtualFileEntity(st, entity_id, Get(data, "option"))
                  IN  Outcome("", OkResult, <<>>, w.writes, w.store)
             ELSE SendToHa(st, url, plain, net)
        ELSE IF StartsWith(s, <<"notify", ".">>) /\ NonEmpty(data)
        THEN IF StartsWith(s, <<"notify", ".", "echo_">>)
             THEN SendToHa(st, ServiceUrl(domain, <<"send_message">>), plain, net)
             ELSE SendToHa(st, url, data, net)
        ELSE IF entity_id = SwitchDebug
        THEN LET w == SetVirtualFileEntity(st, entity_id, Str(service_name))
             IN  Outcome("", OkResult, <<>>, w.writes, w.store)
        ELSE IF entity_id = BaseSpeaker /\ NonEmpty(data)
        THEN SetVirtualEntityBase(st, entity_id, Get(data, "volume_level"), net)
        ELSE SendToHa(st, url, plain, net)

(***************************************************************************)
(* process_ai_response                                                     *)
(***************************************************************************)
\* ha_result.split(":")[0]
CodePart(ha_result) ==
    IF FirstIndex(ha_result, ":") = 0 THEN ha_result
    ELSE SubSeq(ha_result, 1, FirstIndex(ha_result, ":") - 1)

\* status_code: int(ha_result.split(":")[0]), 0 on ValueError
StatusCode(ha_result) ==
    IF AllDigits(CodePart(ha_result)) THEN StrToNat(CodePart(ha_result)) ELSE 0

\* the record process_ai_response returns, with the effects of the call
Processed(raised, intent, ha_result, status_code, calls, writes, st) ==
    [raised |-> raised, intent |-> intent, ha_result |-> ha_result,
     status_code |-> status_code, calls |-> calls, writes |-> writes, store |-> st]

ProcessAiResponse(st, ai_response, net) ==
    LET clean_response == CleanAiResponse(ai_response)
        intent == clean_response.intent
        ha_ret == CallHaService(st, intent.service, intent.target, intent.data,
                                intent.variables, net)
    IN  IF clean_response.raised # ""
        THEN Processed(clean_response.raised, NoIntent, None, 0, <<>>, <<>>, st)
        ELSE IF ~Truthy(intent.service)
        THEN Processed("", intent, None, 0, <<>>, <<>>, st)
        ELSE IF ha_ret.raised # ""
        THEN Processed(ha_ret.raised, intent, None, 0, ha_ret.calls, ha_ret.writes,
                       ha_ret.store)
        ELSE Processed("", intent, Str(ha_ret.ha_result),
                       StatusCode(ha_ret.ha_result), ha_ret.calls, ha_ret.writes,
                       ha_ret.store)

(***************************************************************************)
(* Inputs                                                                  *)
(***************************************************************************)
Services ==
    {Str(<<"light", ".", "turn_on">>), Str(<<"switch", ".", "turn_on">>),
     Str(<<"switch", ".", "turn_off">>), Str(<<"script", ".", "morning">>),
     Str(SelectOption), EchoKitchen,
     Str(<<"notify", ".", "mobile">>), Str(<<"media_player", ".", "volume_set">>),
     Str(<<"turn_on">>)}

Targets ==
    {EmptyDict, [entity_id |-> LightKitchen], [entity_id |-> SwitchDebug],
     [entity_id |-> InputSelectPreferences], [entity_id |-> InputSelectIntel],
     [entity_id |-> BaseSpeaker]}

\* the volume levels 0 .. MaxLevel written as decimal strings
Levels == {Str(IntToStr(n)) : n \in 0..MaxLevel}

Datas ==
    {EmptyDict, [brightness |-> Num(80)], [option |-> Str(<<"Casual">>)],
     [volume_level |-> Str(<<"abc">>)]}
    \cup {[volume_level |-> v] : v \in Levels}
    \cup {[volume_level |-> Num(n)] : n \in 0..MaxLevel}
    \cup {[volume_level |-> List]}

Variabless == {EmptyDict, [room |-> Str(<<"kitchen">>)]}

NetOutcomes ==
    {Response(200, <<>>), Response(304, <<>>),
     Response(404, <<"Not", " ", "Found">>), NetTimeout, NetConnectionError}

\* the bodies of the raw texts: the JSON documents and a plain sentence
Bodies == {<<d>> : d \in JsonDocs} \cup {<<"Hello", " ", "there">>}

\* the language tags of a fence line: none, and json
LangTags == {<<>>, <<"json">>}

\* t wrapped in code-fence markup: a fence line with the language tag, t, and
\* a closing fence line
Wrap(lang, t) == <<Fence>> \o lang \o <<"\n">> \o t \o <<"\n", Fence>>

\* a body bare, padded with whitespace, and wrapped in a code fence
Unwrapped ==
    Bodies
    \cup {<<" ">> \o b \o <<"\n">> : b \in Bodies}
    \cup {Wrap(<<"json">>, b) : b \in Bodies}

\* the raw texts: each of the above, bare and wrapped in a code fence
Texts == Unwrapped \cup {Wrap(lang, t) : lang \in LangTags, t \in Unwrapped}

(***************************************************************************)
(* State: the preference store (the preference file, which outlives a      *)
(* process), and the invocation the running process has made, with its     *)
(* inputs and everything it did.  A process makes one invocation: the      *)
(* script constructs HAGPT, runs main() once and ends.                     *)
(***************************************************************************)
Invocation(op, text, intent, net, raised, ha_result, status_code, calls, writes) ==
    [op |-> op, text |-> text, intent |-> intent, net |-> net, raised |-> raised,
     ha_result |-> ha_result, status_code |-> status_code, calls |-> calls,
     writes |-> writes]

InitialStore ==
    [name \in {"Log Mode", "Default Preference"} |->
        IF name = "Log Mode" THEN Str(<<"Info">>) ELSE Str(<<"Formal">>)]

\* a constructed HAGPT that has not been called yet
Fresh == Invocation("none", <<>>, NoIntent, Response(0, <<>>), "", None, 0, <<>>, <<>>)

Init ==
    /\ store = InitialStore
    /\ last = Fresh

\* one call of _clean_ai_response
Parse ==
    \E text \in Texts :
        LET r == CleanAiResponse(text)
        IN  /\ last = Fresh
            /\ last' = Invocation("parse", text, r.intent, Response(0, <<>>),
                                  r.raised, None, 0, <<>>, <<>>)
            /\ UNCHANGED store

\* one call of _call_ha_service
Dispatch ==
    \E service \in Services, target \in Targets, data \in Datas,
       variables \in Variabless, net \in NetOutcomes :
        LET r == CallHaService(store, service, target, data, variables, net)
        IN  /\ last = Fresh
            /\ last' = Invocation("dispatch", <<>>,
                                  Intent(service, target, variables, Str(<<>>), data),
                                  net, r.raised,
                                  IF r.raised = "" THEN Str(r.ha_result) ELSE None,
                                  0, r.calls, r.writes)
            /\ store' = r.store

\* one call of process_ai_response
Process ==
    \E text \in Texts, net \in NetOutcomes :
        LET r == ProcessAiResponse(store, text, net)
        IN  /\ last = Fresh
            /\ last' = Invocation("process", text, r.intent, net, r.raised,
                                  r.ha_result, r.status_code, r.calls, r.writes)
            /\ store' = r.store

\* the process ends and the script is run again: HAGPT is constructed anew
\* over the preference file the previous run left
Restart ==
    /\ last # Fresh
    /\ last' = Fresh
    /\ UNCHANGED store

Next == Parse \/ Dispatch \/ Process \/ Restart

Spec == Init /\ [][Next]_vars

(***************************************************************************)
(* Vocabulary of the properties                                            *)
(***************************************************************************)
IsDispatch == last.op = "dispatch"

\* the number of outbound network calls of the invocation
NetCalls == Len(last.calls)

\* the number of preference-store mutations of the invocation
StoreWrites == Len(last.writes)

\* the service of the invocation is a string with a "." to split on
Splittable == last.intent.service.t = "str" /\ FirstIndex(last.intent.service.s, ".") > 0

TargetEntity == Get(last.intent.target, "entity_id")

\* routing rules 1 to 3 do not apply to the invocation
DefaultBranch ==
    /\ Splittable
    /\ ~(StartsWith(last.intent.service.s, <<"script", ".">>)
         /\ NonEmpty(last.intent.variables))
    /\ ~(last.intent.service.s = SelectOption /\ NonEmpty(last.intent.data))
    /\ ~(StartsWith(last.intent.service.s, <<"notify", ".">>)
         /\ NonEmpty(last.intent.data))

\* the invocation is a volume request for the base speaker
VolumeCase ==
    /\ IsDispatch
    /\ DefaultBranch
    /\ TargetEntity = BaseSpeaker
    /\ NonEmpty(last.intent.data)

\* the volume value of the invocation does not convert to a float
NotConvertible == ToFloat(Get(last.intent.data, "volume_level")).exc # ""

RequestErrorPrefix == <<"Request", " ", "error", ":", " ">>

\* the transport of the invocation's network call failed
TransportFailed == NetCalls > 0 /\ last.net.exc # ""

\* {entity_id: target.entity_id} merged with data
EntityWithData == Update([entity_id |-> TargetEntity], last.intent.data)

\* <base>/api/services/<domain>/<action> of the invocation's service
OwnUrl ==
    ServiceUrl(Domain(last.intent.service.s), ServiceName(last.intent.service.s))

(***************************************************************************)
(* C1                                                                      *)
(***************************************************************************)
\* C1 as stated, for the invocations that return: every invocation of
\* dispatch performs exactly one side effect, one network call or one
\* preference-store mutation.
C1_ExactlyOneSideEffect ==
    (IsDispatch /\ last.raised = "") => NetCalls + StoreWrites = 1

\* C1 amended: every invocation of dispatch performs at most one side effect
\* (one network call or one preference-store mutation, never both), and it
\* performs none exactly when the service cannot be split or the volume value
\* for the base speaker does not convert.
C1_AtMostOneSideEffect ==
    IsDispatch =>
        /\ NetCalls + StoreWrites <= 1
        /\ (NetCalls + StoreWrites = 0)
               <=> (~Splittable \/ (VolumeCase /\ NotConvertible))

C1_Witness ==
    /\ VolumeCase
    /\ NotConvertible
    /\ last.raised = ""
    /\ NetCalls = 0
    /\ StoreWrites = 0

(***************************************************************************)
(* C2                                                                      *)
(***************************************************************************)
\* C2: parse returns an intent for every raw text; no error escapes it.
C2_ParseNeverFails == last.op = "parse" => last.raised = ""

(***************************************************************************)
(* C3                                                                      *)
(***************************************************************************)
\* C3 as stated: every result returned by dispatch carries an ha_result whose
\* part before the first ":" is a number.
C3_NumericCode ==
    (IsDispatch /\ last.raised = "") => AllDigits(CodePart(last.ha_result.s))

\* C3 amended: every result returned by dispatch carries an ha_result that is
\* "<status>: OK" or "<status>: <body>" with the numeric status of the remote
\* response when the remote answered, "200: OK" after a virtual-setting
\* mutation, and "Request error: <detail>" after a transport failure or a
\* volume conversion failure; the last has no numeric code and
\* process_ai_response reads its code as 0, outside [200,300).
C3_ResultForm ==
    (last.op \in {"dispatch", "process"} /\ last.raised = "" /\ last.ha_result.t = "str") =>
        LET r == last.ha_result.s
        IN  IF NetCalls > 0 /\ last.net.exc = ""
            THEN /\ StartsWith(r, IntToStr(last.net.status) \o <<":", " ">>)
                 /\ StatusCode(r) = last.net.status
                 /\ (r = IntToStr(last.net.status) \o <<":", " ", "OK">>
                     \/ r = IntToStr(last.net.status) \o <<":", " ">> \o last.net.text)
            ELSE IF StoreWrites > 0
            THEN r = OkResult /\ StatusCode(r) = 200
            ELSE /\ StartsWith(r, RequestErrorPrefix)
                 /\ ~AllDigits(CodePart(r))
                 /\ StatusCode(r) = 0
                 /\ (last.op = "process" => last.status_code = 0)

C3_Witness ==
    /\ last.op = "process"
    /\ TransportFailed
    /\ last.ha_result = Str(RequestErrorPrefix \o last.net.desc)
    /\ last.status_code = 0

(***************************************************************************)
(* C4                                                                      *)
(***************************************************************************)
\* C4: when the outbound call of a dispatch fails at the transport level,
\* dispatch does not raise, returns the error result carrying the failure
\* description, and has made the call once.
C4_TransportFailureReported ==
    (IsDispatch /\ TransportFailed) =>
        /\ last.raised = ""
        /\ last.ha_result = Str(RequestErrorPrefix \o last.net.desc)
        /\ NetCalls = 1

C4_Witness ==
    /\ IsDispatch
    /\ TransportFailed
    /\ last.net.exc = "Timeout"
    /\ last.calls[1].api = "base"
    /\ last.raised = ""

(***************************************************************************)
(* C5                                                                      *)
(***************************************************************************)
\* C5: a volume request for the base speaker whose volume value does not
\* convert returns the client-side error result, makes no network call and
\* does not raise.
C5_ConversionFailureReported ==
    (VolumeCase /\ NotConvertible) =>
        /\ last.raised = ""
        /\ last.ha_result = Str(ConversionError)
        /\ NetCalls = 0

(***************************************************************************)
(* C6                                                                      *)
(***************************************************************************)
\* the invocation is an ordinary device call
OrdinaryCase ==
    /\ IsDispatch
    /\ DefaultBranch
    /\ TargetEntity # SwitchDebug
    /\ ~(TargetEntity = BaseSpeaker /\ NonEmpty(last.intent.data))

\* C6: an ordinary device call sends one POST to the primary control plane
\* at the service's own URL with {entity_id} merged with data; a 2xx response
\* yields "<status>: OK" and a non-2xx response "<status>: <body>".
C6_OrdinaryCall ==
    OrdinaryCase =>
        /\ last.calls = <<Request("ha", OwnUrl, TRUE, EntityWithData)>>
        /\ last.net.exc = "" =>
               IF 200 <= last.net.status /\ last.net.status < 300
               THEN last.ha_result = Str(IntToStr(last.net.status) \o <<":", " ", "OK">>)
               ELSE last.ha_result
                        = Str(IntToStr(last.net.status) \o <<":", " ">> \o last.net.text)

(***************************************************************************)
(* C7                                                                      *)
(***************************************************************************)
\* the setting the debug switch maps the invocation's action to
LogModeFor(action) == IF action = <<"turn_on">> THEN Str(<<"Debug">>) ELSE Str(<<"Info">>)

\* C7: a default-branch dispatch to switch.debug makes no network call,
\* writes "Log Mode" (Debug for turn_on, Info for any other action) and no
\* other setting, and returns "200: OK".
C7_DebugSwitch ==
    (IsDispatch /\ DefaultBranch /\ TargetEntity = SwitchDebug) =>
        /\ last.raised = ""
        /\ NetCalls = 0
        /\ last.writes = <<[name |-> "Log Mode",
                            value |-> LogModeFor(ServiceName(last.intent.service.s))]>>
        /\ store["Log Mode"] = LogModeFor(ServiceName(last.intent.service.s))
        /\ last.ha_result = Str(OkResult)

C7_Witness ==
    /\ IsDispatch
    /\ DefaultBranch
    /\ TargetEntity = SwitchDebug
    /\ ServiceName(last.intent.service.s) = <<"turn_on">>
    /\ store["Log Mode"] = Str(<<"Debug">>)

(***************************************************************************)
(* C8                                                                      *)
(***************************************************************************)
\* the invocation is a select_option call with data
SelectCase ==
    /\ IsDispatch
    /\ last.intent.service = Str(SelectOption)
    /\ NonEmpty(last.intent.data)

\* C8: select_option with data on input_select.preferences makes no network
\* call, writes "Default Preference" to data's option and nothing else, and
\* returns "200: OK"; on any other entity it writes nothing and sends
\* {entity_id} merged with data to the primary control plane.
C8_SelectOption ==
    SelectCase =>
        IF TargetEntity = InputSelectPreferences
        THEN /\ last.raised = ""
             /\ NetCalls = 0
             /\ last.writes = <<[name |-> "Default Preference",
                                 value |-> Get(last.intent.data, "option")]>>
             /\ store["Default Preference"] = Get(last.intent.data, "option")
             /\ last.ha_result = Str(OkResult)
        ELSE /\ last.writes = <<>>
             /\ last.calls = <<Request("ha", OwnUrl, TRUE, EntityWithData)>>

C8_Witness ==
    /\ SelectCase
    /\ TargetEntity = InputSelectPreferences
    /\ store["Default Preference"] = Str(<<"Casual">>)
    /\ last.writes # <<>>

(***************************************************************************)
(* C9                                                                      *)
(***************************************************************************)
\* the parser returns, for the text of the invocation, an intent whose
\* service is absent (None or empty)
ParsedServiceAbsent ==
    /\ CleanAiResponse(last.text).raised = ""
    /\ CleanAiResponse(last.text).intent.service \in {None, Str(<<>>)}

\* C9: when the parsed intent has no service, process_ai_response dispatches
\* nothing (no network call, no store write, no ha_result) and returns the
\* parsed response_text.
C9_NoServiceNoDispatch ==
    (last.op = "process" /\ ParsedServiceAbsent) =>
        /\ last.raised = ""
        /\ NetCalls = 0
        /\ StoreWrites = 0
        /\ last.ha_result = None
        /\ last.intent.response_text = CleanAiResponse(last.text).intent.response_text

C9_Witness ==
    /\ last.op = "process"
    /\ ParsedServiceAbsent
    /\ last.intent.service = Str(<<>>)
    /\ last.intent.response_text = Str(<<"hi">>)
    /\ NetCalls = 0

(***************************************************************************)
(* C10                                                                     *)
(***************************************************************************)
\* v is a "<domain>.<action>" string
WellFormedService(v) ==
    /\ v.t = "str"
    /\ FirstIndex(v.s, ".") > 1
    /\ FirstIndex(v.s, ".") < Len(v.s)

\* C10: the service of every intent the parser returns is absent or a
\* well-formed "<domain>.<action>" string, and no intent that
\* process_ai_response hands to dispatch faults on the split.
C10_ServiceWellFormed ==
    (last.op \in {"parse", "process"} /\ CleanAiResponse(last.text).raised = "") =>
        /\ ~Truthy(last.intent.service) \/ WellFormedService(last.intent.service)
        /\ last.raised = ""

(***************************************************************************)
(* C11                                                                     *)
(***************************************************************************)
\* the parse of the invocation is the parse of t wrapped in a code fence
ParsedWrapped(t) ==
    /\ last.op = "parse"
    /\ \E lang \in LangTags : last.text = Wrap(lang, t)

\* the invocation returned what the parser returns for t
SameAsParsing(t) ==
    /\ last.raised = CleanAiResponse(t).raised
    /\ last.intent = CleanAiResponse(t).intent

\* t, trimmed, neither begins nor ends with a code fence
NotFenced(t) ==
    Strip(t) = <<>> \/ (Strip(t)[1] # Fence /\ Strip(t)[Len(Strip(t))] # Fence)

\* t is a JSON document, possibly with whitespace around it
IsJson(t) == Len(Strip(t)) = 1 /\ Strip(t)[1] \in JsonDocs

\* C11 as stated: for every raw input t, parsing t wrapped in code-fence
\* markup returns the same intent as parsing t unwrapped.
C11_WrappedSameAsUnwrapped ==
    \A t \in Unwrapped : ParsedWrapped(t) => SameAsParsing(t)

\* C11 amended: parsing t wrapped in code-fence markup strips exactly the
\* one leading and the one trailing fence of the wrapping, so a t that is
\* not structured data comes back as response_text with only its leading
\* whitespace removed (a fence of its own and its trailing whitespace are
\* kept); the intent is the same as for parsing t unwrapped when t is not
\* itself fenced and either is a JSON document or has no trailing whitespace.
C11_WrappedSameWhenPlain ==
    \A t \in Unwrapped :
        ParsedWrapped(t) =>
            /\ ~IsJson(t) =>
                   /\ last.raised = ""
                   /\ last.intent.service = None
                   /\ last.intent.response_text = Str(LStrip(t))
            /\ (NotFenced(t) /\ (IsJson(t) \/ RStrip(t) = t)) => SameAsParsing(t)

C11_Witness ==
    /\ ParsedWrapped(<<DocLight>>)
    /\ last.raised = ""
    /\ last.intent.service = Str(<<"light", ".", "turn_on">>)
    /\ last.intent = CleanAiResponse(<<DocLight>>).intent

(***************************************************************************)
(* C12                                                                     *)
(***************************************************************************)
\* the invocation is a notification with data
NotifyCase ==
    /\ IsDispatch
    /\ StartsWith(last.intent.service.s, <<"notify", ".">>)
    /\ NonEmpty(last.intent.data)

\* the service of the invocation names an echo channel
EchoCase == NotifyCase /\ StartsWith(last.intent.service.s, <<"notify", ".", "echo_">>)

\* <base>/api/services/notify/<action>
NotifyUrl(action) ==
    <<HaUrl, "/", "api", "/", "services", "/", "notify", "/">> \o action

\* the action of a notify service: what follows "notify."
NotifyAction == SubSeq(last.intent.service.s, 3, Len(last.intent.service.s))

\* C12 as stated: a notification with data to an echo channel posts
\* {entity_id} alone to the send_message path; any other notification with
\* data posts data alone to the service's own path.
C12_NotifyPayload ==
    NotifyCase =>
        IF EchoCase
        THEN last.calls = <<Request("ha", NotifyUrl(<<"send_message">>), TRUE,
                                    [entity_id |-> TargetEntity])>>
        ELSE last.calls = <<Request("ha", NotifyUrl(NotifyAction), TRUE,
                                    last.intent.data)>>

\* C12 amended: a notification with data to an echo channel posts
\* {entity_id} merged with data to the send_message path of the notify
\* domain on the primary control plane; any other notification with data
\* posts data alone, without the target's entity_id, to the service's own
\* path.
C12_NotifyPayloadWithData ==
    NotifyCase =>
        /\ last.writes = <<>>
        /\ IF EchoCase
           THEN last.calls = <<Request("ha", NotifyUrl(<<"send_message">>), TRUE,
                                       [k \in {"entity_id"} \cup DOMAIN last.intent.data |->
                                           IF k \in DOMAIN last.intent.data
                                           THEN last.intent.data[k] ELSE TargetEntity])>>
           ELSE last.calls = <<Request("ha", NotifyUrl(NotifyAction), TRUE,
                                       last.intent.data)>>

C12_Witness ==
    /\ EchoCase
    /\ TargetEntity = LightKitchen
    /\ last.calls[1].url = NotifyUrl(<<"send_message">>)
    /\ last.calls[1].body = [entity_id |-> LightKitchen, brightness |-> Num(80)]

====
